---------------------------- MODULE Spec2Model ----------------------------
(***************************************************************************)
(* Model of the marketplace playground helpers:                            *)
(*   - sitecore-dictionary: getApplicationContext, getPreviewContextId,    *)
(*     isValidSitecorePath, isValidLanguageCode, fetchDictionaryItems      *)
(*   - useUser: the React hook that fetches host.user                      *)
(* JavaScript values are tagged records; JavaScript strings are sequences  *)
(* of one-character strings, so that the regular expressions and trim()    *)
(* are computed character by character.                                    *)
(***************************************************************************)
EXTENDS Naturals, Sequences, FiniteSets

VARIABLES
    entry,          \* exported function that was invoked ("none" before the call)
    client,         \* TRUE iff the client argument is a ClientSDK (not null)
    dictionaryPath, \* argument of fetchDictionaryItems
    language,       \* argument of fetchDictionaryItems
    pc,             \* "idle" | "awaitContext" | "awaitGraphql" | "done"
    calls,          \* calls issued on the client, in order
    ctxOutcome,     \* how client.query("application.context") settled
    gqlOutcome,     \* how client.mutate("xmc.preview.graphql") settled
    appContext,     \* promise returned by getApplicationContext
    previewId,      \* promise returned by getPreviewContextId
    items,          \* promise returned by fetchDictionaryItems
    logs,           \* console.error / console.warn lines, in order
    hooks,          \* useUser instances, each with what useMarketplaceClient
                    \* gives it: [mounted, client, isInitialized, user, isLoading]
    queries         \* host.user queries issued by the hooks, in order

fetchVars == <<entry, client, dictionaryPath, language, pc, calls, ctxOutcome,
               gqlOutcome, appContext, previewId, items, logs>>
hookVars == <<hooks, queries>>
vars == <<entry, client, dictionaryPath, language, pc, calls, ctxOutcome,
          gqlOutcome, appContext, previewId, items, logs, hooks, queries>>

-----------------------------------------------------------------------------
(* Bounds of the explored inputs *)

MaxTail == 2
MaxLang == 5
MaxResults == 2
MaxQueries == 2

-----------------------------------------------------------------------------
(* JavaScript values *)

Undefined == [t |-> "undefined"]
Null == [t |-> "null"]
Str(s) == [t |-> "string", s |-> s]
Num(n) == [t |-> "number", n |-> n]
Arr(e) == [t |-> "array", e |-> e]
\* an object is its sequence of <<name, value>> properties
Obj(p) == [t |-> "object", p |-> p]
\* an Error instance
Err(m) == [t |-> "error", message |-> m]

IsNullish(v) == v.t \in {"undefined", "null"}

RECURSIVE Lookup(_, _)
Lookup(p, k) ==
    IF p = <<>> THEN Undefined
    ELSE IF Head(p)[1] = k THEN Head(p)[2] ELSE Lookup(Tail(p), k)

\* v.k for a v that is not null or undefined
Get(v, k) ==
    CASE v.t = "object" -> Lookup(v.p, k)
      [] v.t = "error" /\ k = "message" -> Str(v.message)
      [] OTHER -> Undefined

\* v[i] with a zero-based index
At(v, i) ==
    CASE v.t = "array" /\ i + 1 \in DOMAIN v.e -> v.e[i + 1]
      [] v.t = "string" /\ i + 1 \in DOMAIN v.s -> Str(<<v.s[i + 1]>>)
      [] OTHER -> Undefined

\* v?.k and v?.[i]
OptGet(v, k) == IF IsNullish(v) THEN Undefined ELSE Get(v, k)
OptAt(v, i) == IF IsNullish(v) THEN Undefined ELSE At(v, i)

\* !!v
Truthy(v) ==
    CASE v.t \in {"undefined", "null"} -> FALSE
      [] v.t = "string" -> v.s # <<>>
      [] v.t = "number" -> v.n # 0
      [] OTHER -> TRUE

\* a || b
Or(a, b) == IF Truthy(a) THEN a ELSE b

\* a ?? b
Coalesce(a, b) == IF IsNullish(a) THEN b ELSE a

TypeOf(v) ==
    CASE v.t = "undefined" -> "undefined"
      [] v.t = "string" -> "string"
      [] v.t = "number" -> "number"
      [] OTHER -> "object"

Digit(n) == <<"0", "1", "2", "3", "4", "5", "6", "7", "8", "9">>[n + 1]

\* String(v); a number of this model is a single digit, and every value of
\* this model has a string conversion
RECURSIVE StringOf(_)
RECURSIVE Join(_)
Join(e) ==
    IF e = <<>> THEN <<>>
    ELSE (IF IsNullish(Head(e)) THEN <<>> ELSE StringOf(Head(e)))
         \o (IF Tail(e) = <<>> THEN <<>> ELSE <<",">> \o Join(Tail(e)))
StringOf(v) ==
    CASE v.t = "undefined" -> <<"u", "n", "d", "e", "f", "i", "n", "e", "d">>
      [] v.t = "null" -> <<"n", "u", "l", "l">>
      [] v.t = "string" -> v.s
      [] v.t = "number" -> <<Digit(v.n)>>
      [] v.t = "error" -> <<"E", "r", "r", "o", "r", ":", " ">> \o v.message
      [] v.t = "array" -> Join(v.e)
      [] OTHER -> <<"[", "o", "b", "j", "e", "c", "t", " ", "O", "b", "j", "e", "c", "t", "]">>

\* completion of a block of code: a returned value or a thrown one, with the
\* console.error and console.warn lines written on the way (console.log lines
\* are not recorded)
Return(v) == [ok |-> TRUE, val |-> v, err |-> Undefined, log |-> <<>>]
Throw(e) == [ok |-> FALSE, val |-> Undefined, err |-> e, log |-> <<>>]
Logged(lines, c) == [c EXCEPT !.log = lines \o @]
Line(level, text, arg) == [level |-> level, text |-> text, arg |-> arg]

\* "Cannot read properties of null", "x.trim is not a function"
TypeError == Err(<<"T", "y", "p", "e", "E", "r", "r", "o", "r">>)

\* promises
Pending == [state |-> "pending"]
Fulfilled(v) == [state |-> "fulfilled", value |-> v]
Rejected(e) == [state |-> "rejected", reason |-> e]
Settle(c) == IF c.ok THEN Fulfilled(c.val) ELSE Rejected(c.err)

GetErrorMessage(error) ==
    IF error.t = "error" THEN error.message ELSE StringOf(error)

DICTIONARY_ENTRY_TEMPLATE_ID == "{6D1CD897-1936-4A3A-A511-289A94C2A7B1}"

-----------------------------------------------------------------------------
(* Validation *)

Lower == {"a", "b", "c", "d", "e", "f", "g", "h", "i", "j", "k", "l", "m",
          "n", "o", "p", "q", "r", "s", "t", "u", "v", "w", "x", "y", "z"}
Upper == {"A", "B", "C", "D", "E", "F", "G", "H", "I", "J", "K", "L", "M",
          "N", "O", "P", "Q", "R", "S", "T", "U", "V", "W", "X", "Y", "Z"}
Digits == {"0", "1", "2", "3", "4", "5", "6", "7", "8", "9"}
\* \w and \s (the ASCII members of \s)
IsWordChar(c) == c \in Lower \cup Upper \cup Digits \cup {"_"}
IsSpaceChar(c) == c \in {" ", "\t", "\n", "\r", "\f"}

Root == <<"/", "s", "i", "t", "e", "c", "o", "r", "e", "/">>

\* the literal prefix of the pattern, matched from the first character
RECURSIVE MatchLiteral(_, _)
MatchLiteral(lit, s) ==
    IF lit = <<>> THEN TRUE
    ELSE /\ s # <<>>
         /\ Head(s) = Head(lit)
         /\ MatchLiteral(Tail(lit), Tail(s))

\* [\w\s\-/]+$ : one or more characters of the class, up to the end
RECURSIVE MatchPathClassPlus(_)
MatchPathClassPlus(s) ==
    /\ s # <<>>
    /\ \/ IsWordChar(Head(s))
       \/ IsSpaceChar(Head(s))
       \/ Head(s) \in {"-", "/"}
    /\ (Tail(s) = <<>> \/ MatchPathClassPlus(Tail(s)))

PathNoPlus(path) ==
    /\ MatchLiteral(Root, path)
    /\ \A i \in (Len(Root) + 1)..Len(path) :
          IsWordChar(path[i]) \/ IsSpaceChar(path[i]) \/ path[i] \in {"-", "/"}

\* /^\/sitecore\/[\w\s\-/]+$/.test(path)
IsValidSitecorePath(path) ==
    /\ MatchLiteral(Root, path)
    /\ Len(path) > Len(Root)
    /\ MatchPathClassPlus(SubSeq(path, Len(Root) + 1, Len(path)))

\* [a-z] under the i flag
IsLetter(c) == c \in Lower \cup Upper

\* /^[a-z]{2}(-[a-z]{2,3})?$/i.test(language)
IsValidLanguageCode(lang) ==
    /\ Len(lang) >= 2
    /\ IsLetter(lang[1]) /\ IsLetter(lang[2])
    /\ \/ Len(lang) = 2
       \/ /\ Len(lang) \in {5, 6}
          /\ lang[3] = "-"
          /\ \A i \in 4..Len(lang) : IsLetter(lang[i])

-----------------------------------------------------------------------------
(* Context resolver *)

ContextCall ==
    [method |-> "query", name |-> "application.context",
     sitecoreContextId |-> Undefined, query |-> <<>>]

\* getApplicationContext from its await on: `settled` is how the query settled
GetApplicationContextAwait(settled) ==
    IF settled.ok
    THEN Return(Coalesce(OptGet(settled.val, "data"), Null))
    ELSE Logged(<<Line("error", "Failed to get application context:",
                       GetErrorMessage(settled.err))>>,
                Return(Null))

PreviewIdUnchecked(app) ==
    IF ~app.ok THEN Return(Null)
    ELSE IF ~Truthy(app.val) THEN Return(Null)
    ELSE Return(OptGet(OptGet(OptAt(OptGet(app.val, "resources"), 0),
                              "context"), "preview"))

\* getPreviewContextId from its await on: `app` is how getApplicationContext
\* completed
GetPreviewContextIdAwait(app) ==
    IF ~app.ok
    THEN Logged(<<Line("error", "Failed to get preview context ID:",
                       GetErrorMessage(app.err))>>,
                Return(Null))
    ELSE IF ~Truthy(app.val) THEN Return(Null)
    ELSE LET previewContextId ==
                 OptGet(OptGet(OptAt(OptGet(app.val, "resources"), 0),
                               "context"), "preview")
         IN  IF TypeOf(previewContextId) # "string"
             THEN Logged(<<Line("error",
                                "Preview context ID not found in application context",
                                <<>>)>>,
                         Return(Null))
             ELSE Return(previewContextId)

-----------------------------------------------------------------------------
(* Dictionary fetcher *)

\* the query template with its three interpolations
BuildQuery(path, lang) ==
    <<"{ item(path:\"">> \o path \o <<"\", language:\"">> \o lang
    \o <<"\") { children(includeTemplateIDs:\"", DICTIONARY_ENTRY_TEMPLATE_ID,
         "\") { results { keyField: field(name: \"Key\") { value }, phraseField: field(name: \"Phrase\") { value } } } } }">>

GraphqlCall(id, query) ==
    [method |-> "mutate", name |-> "xmc.preview.graphql",
     sitecoreContextId |-> id, query |-> query]

\* String.prototype.trim
RECURSIVE TrimStart(_)
TrimStart(s) ==
    IF s # <<>> /\ IsSpaceChar(Head(s)) THEN TrimStart(Tail(s)) ELSE s
RECURSIVE TrimEnd(_)
TrimEnd(s) ==
    IF s # <<>> /\ IsSpaceChar(s[Len(s)])
    THEN TrimEnd(SubSeq(s, 1, Len(s) - 1)) ELSE s
Trim(s) == TrimEnd(TrimStart(s))

\* the callback of results.map
MapItem(item) ==
    IF IsNullish(item) THEN Throw(TypeError)
    ELSE LET key == Or(OptGet(Get(item, "keyField"), "value"), Str(<<>>))
             phrase == Or(OptGet(Get(item, "phraseField"), "value"), Str(<<>>))
         IN  Logged(IF ~Truthy(phrase)
                    THEN <<Line("warn",
                                "Dictionary item missing Phrase field, skipping item with key:",
                                StringOf(key))>>
                    ELSE <<>>,
                    Return([key |-> key, phrase |-> phrase]))

RECURSIVE MapResults(_)
MapResults(e) ==
    IF e = <<>> THEN Return(<<>>)
    ELSE LET first == MapItem(Head(e))
         IN  IF ~first.ok THEN first
             ELSE LET rest == MapResults(Tail(e))
                  IN  IF ~rest.ok THEN Logged(first.log, rest)
                      ELSE Logged(first.log \o rest.log,
                                  Return(<<first.val>> \o rest.val))

KeepNonEmpty(item) ==
    IF item.phrase.t # "string" THEN Throw(TypeError)
    ELSE Return(Len(item.phrase.s) > 0)

\* the callback of .filter: item.phrase.trim().length > 0
KeepItem(item) ==
    IF item.phrase.t # "string" THEN Throw(TypeError)
    ELSE Return(Len(Trim(item.phrase.s)) > 0)

RECURSIVE FilterItems(_)
FilterItems(mapped) ==
    IF mapped = <<>> THEN Return(<<>>)
    ELSE LET keep == KeepItem(Head(mapped))
         IN  IF ~keep.ok THEN keep
             ELSE LET rest == FilterItems(Tail(mapped))
                  IN  IF ~rest.ok THEN rest
                      ELSE Return((IF keep.val THEN <<Head(mapped)>> ELSE <<>>)
                                  \o rest.val)

\* the try block from the await of client.mutate on
FetchUnpack(settled, path) ==
    IF ~settled.ok THEN Throw(settled.err)
    ELSE LET results ==
                 OptGet(OptGet(OptGet(OptGet(OptGet(settled.val, "data"),
                     "data"), "item"), "children"), "results")
         IN  IF ~Truthy(results) \/ results.t # "array"
             THEN Logged(<<Line("warn", "No dictionary items found at path:", path)>>,
                         Return(<<>>))
             ELSE IF Len(results.e) = 0
             THEN Logged(<<Line("warn", "Dictionary folder is empty at path:", path)>>,
                         Return(<<>>))
             ELSE LET mapped == MapResults(results.e)
                  IN  IF ~mapped.ok THEN mapped
                      ELSE Logged(mapped.log, FilterItems(mapped.val))

FetchCatchRethrow(c) == c

\* the catch clause of fetchDictionaryItems
FetchCatch(c) ==
    IF c.ok THEN c
    ELSE Logged(c.log \o <<Line("error", "Failed to fetch dictionary items:",
                                GetErrorMessage(c.err))>>,
                Return(<<>>))

ProceedsUnchecked(preview) == preview.ok

\* the try block between the two awaits: whether the GraphQL call is issued
Proceeds(preview) == preview.ok /\ Truthy(preview.val)

\* the try block between the two awaits, when no GraphQL call is issued
FetchNoPreview(preview) ==
    IF ~preview.ok THEN Throw(preview.err)
    ELSE Logged(<<Line("warn", "No preview context ID found", <<>>)>>,
                Return(<<>>))

-----------------------------------------------------------------------------
(* Inputs *)

RECURSIVE SeqsUpTo(_, _)
SeqsUpTo(S, n) ==
    IF n = 0 THEN {<<>>}
    ELSE LET shorter == SeqsUpTo(S, n - 1)
         IN  shorter \cup {Append(q, c) : q \in shorter, c \in S}

DefaultPath ==
    Root \o <<"c", "o", "n", "t", "e", "n", "t", "/", "a", "i", "/",
              "c", "a", "d", "e", "n", "c", "e", "a", "i", "c", "o", "n", "v",
              "e", "r", "s", "i", "o", "n", "/", "D", "i", "c", "t", "i", "o",
              "n", "a", "r", "y", "/", "D", "e", "m", "o">>
DefaultLanguage == <<"e", "n">>

PathChars == {"a", "7", "_", " ", "-", "/", "\""}
Roots == {Root,
          <<"/", "S", "i", "t", "e", "c", "o", "r", "e", "/">>,
          <<"s", "i", "t", "e", "c", "o", "r", "e", "/">>,
          <<"/", "s", "i", "t", "e", "c", "o", "r", "e">>,
          <<>>}
Paths == {r \o tl : r \in Roots, tl \in SeqsUpTo(PathChars, MaxTail)}
         \cup {DefaultPath}

LangChars == {"e", "N", "-", "1"}
Langs == SeqsUpTo(LangChars, MaxLang) \cup {DefaultLanguage}

\* each argument over its whole set with the other at its default, and the
\* short paths with the short languages
Inputs ==
    (Paths \X {DefaultLanguage}) \cup ({DefaultPath} \X Langs)
    \cup ({r \o tl : r \in Roots, tl \in SeqsUpTo(PathChars, 1)}
          \X SeqsUpTo(LangChars, 2))

\* reasons a client call rejects with
Reasons == {Err(<<"b", "o", "o", "m">>), Str(<<"d", "o", "w", "n">>), Undefined}

Id1 == Str(<<"c", "1">>)
Id2 == Str(<<"c", "2">>)
Resource(preview) ==
    Obj(<< <<"context", Obj(<< <<"preview", preview>> >>)>> >>)
Context(resources) == Obj(<< <<"name", Str(<<"a", "p", "p">>)>>,
                             <<"resources", resources>> >>)

\* payloads of application.context
ContextPayloads ==
    {Undefined, Null, Num(0), Str(<<"x">>), Obj(<<>>),
     Context(Null), Context(Arr(<<>>)), Context(Arr(<<Null>>)),
     Context(Arr(<<Obj(<<>>)>>)),
     Context(Arr(<<Obj(<< <<"context", Null>> >>)>>)),
     Context(Arr(<<Resource(Undefined)>>)),
     Context(Arr(<<Resource(Null)>>)),
     Context(Arr(<<Resource(Num(5))>>)),
     Context(Arr(<<Resource(Str(<<>>))>>)),
     Context(Arr(<<Resource(Id1)>>)),
     Context(Arr(<<Resource(Id2), Resource(Id1)>>)),
     Context(Arr(<<Resource(Null), Resource(Id1)>>))}

\* what client.query("application.context") resolves to
ContextResponses ==
    {Undefined, Obj(<<>>)} \cup {Obj(<< <<"data", d>> >>) : d \in ContextPayloads}

Field(v) == Obj(<< <<"value", v>> >>)
Entry(k, ph) == Obj(<< <<"keyField", k>>, <<"phraseField", ph>> >>)
Entries ==
    {Entry(Field(Str(<<"a">>)), Field(Str(<<"H", "i">>))),
     Entry(Field(Str(<<"b">>)), Field(Str(<<>>))),
     Entry(Field(Str(<<"c">>)), Field(Str(<<" ", "\n">>))),
     Obj(<< <<"phraseField", Field(Str(<<" ", "x", " ">>))>> >>),
     Entry(Field(Str(<<"d">>)), Null),
     Null,
     Entry(Field(Str(<<"e">>)), Field(Num(5)))}

Nest(results) ==
    Obj(<< <<"data", Obj(<< <<"data", Obj(<< <<"item", Obj(<< <<"children",
        Obj(<< <<"results", results>> >>)>> >>)>> >>)>> >>)>> >>)

\* what client.mutate("xmc.preview.graphql") resolves to
GraphqlResponses ==
    {Undefined, Null, Obj(<<>>), Obj(<< <<"data", Null>> >>),
     Obj(<< <<"data", Obj(<< <<"data", Obj(<< <<"item", Null>> >>)>> >>)>> >>),
     Obj(<< <<"data", Obj(<< <<"data", Obj(<< <<"item", Obj(<< <<"children",
         Obj(<<>>)>> >>)>> >>)>> >>)>> >>),
     Nest(Null), Nest(Str(<<"x">>)), Nest(Obj(<<>>))}
    \cup {Nest(Arr(e)) : e \in SeqsUpTo(Entries, MaxResults)}

-----------------------------------------------------------------------------
(* Helper invocations *)

\* what an await yields for a settled promise
Awaited(promise) ==
    IF promise.state = "fulfilled" THEN Return(promise.value)
    ELSE Throw(promise.reason)

InitFetch ==
    /\ entry = "none"
    /\ client = FALSE
    /\ dictionaryPath = <<>>
    /\ language = <<>>
    /\ pc = "idle"
    /\ calls = <<>>
    /\ ctxOutcome = Pending
    /\ gqlOutcome = Pending
    /\ appContext = Pending
    /\ previewId = Pending
    /\ items = Pending
    /\ logs = <<>>

\* getApplicationContext(client) up to its await
CallGetApplicationContext ==
    \E c \in BOOLEAN :
        /\ pc = "idle"
        /\ entry' = "getApplicationContext"
        /\ client' = c
        /\ IF ~c
           THEN /\ appContext' = Fulfilled(Null)
                /\ pc' = "done"
                /\ calls' = calls
           ELSE /\ appContext' = Pending
                /\ pc' = "awaitContext"
                /\ calls' = Append(calls, ContextCall)
        /\ UNCHANGED <<dictionaryPath, language, ctxOutcome, gqlOutcome,
                       previewId, items, logs>>
        /\ UNCHANGED hookVars

\* getPreviewContextId(client) up to the await inside getApplicationContext
CallGetPreviewContextId ==
    \E c \in BOOLEAN :
        /\ pc = "idle"
        /\ entry' = "getPreviewContextId"
        /\ client' = c
        /\ IF ~c
           THEN /\ previewId' = Fulfilled(Null)
                /\ pc' = "done"
                /\ calls' = calls
           ELSE /\ previewId' = Pending
                /\ pc' = "awaitContext"
                /\ calls' = Append(calls, ContextCall)
        /\ UNCHANGED <<dictionaryPath, language, ctxOutcome, gqlOutcome,
                       appContext, items, logs>>
        /\ UNCHANGED hookVars

\* whether fetchDictionaryItems reaches its try block
Gate(c, path, lang) ==
    c /\ IsValidSitecorePath(path) /\ IsValidLanguageCode(lang)

\* the return of fetchDictionaryItems before its try block
FetchEarlyReturn(c, path, lang) ==
    IF ~c
    THEN Logged(<<Line("error", "Sitecore client is not initialized", <<>>)>>,
                Return(<<>>))
    ELSE IF ~IsValidSitecorePath(path)
    THEN Logged(<<Line("error", "Invalid dictionary path format:", path)>>,
                Return(<<>>))
    ELSE Logged(<<Line("error", "Invalid language code format:", lang)>>,
                Return(<<>>))

\* fetchDictionaryItems(client, dictionaryPath, language) up to its first await
CallFetchDictionaryItems ==
    /\ pc = "idle"
    /\ \E c \in BOOLEAN, in \in Inputs :
        LET early == FetchEarlyReturn(c, in[1], in[2])
        IN  /\ entry' = "fetchDictionaryItems"
            /\ client' = c
            /\ dictionaryPath' = in[1]
            /\ language' = in[2]
            /\ IF ~Gate(c, in[1], in[2])
               THEN /\ items' = Settle(early)
                    /\ logs' = logs \o early.log
                    /\ pc' = "done"
                    /\ calls' = calls
               ELSE /\ items' = Pending
                    /\ logs' = logs
                    /\ pc' = "awaitContext"
                    /\ calls' = Append(calls, ContextCall)
            /\ UNCHANGED <<ctxOutcome, gqlOutcome, appContext, previewId>>
            /\ UNCHANGED hookVars

\* the application.context query settles: getApplicationContext completes, then
\* getPreviewContextId, then fetchDictionaryItems runs to its second await or
\* to its return
ContextSettles(settled) ==
    LET app == GetApplicationContextAwait(Awaited(settled))
        preview == GetPreviewContextIdAwait(app)
        ended == FetchCatch(FetchNoPreview(preview))
    IN  /\ pc = "awaitContext"
        /\ ctxOutcome' = settled
        /\ appContext' = Settle(app)
        /\ CASE entry = "getApplicationContext" ->
                  /\ pc' = "done"
                  /\ logs' = logs \o app.log
                  /\ UNCHANGED <<previewId, items, calls>>
             [] entry = "getPreviewContextId" ->
                  /\ pc' = "done"
                  /\ previewId' = Settle(preview)
                  /\ logs' = logs \o app.log \o preview.log
                  /\ UNCHANGED <<items, calls>>
             [] entry = "fetchDictionaryItems" /\ Proceeds(preview) ->
                  /\ pc' = "awaitGraphql"
                  /\ previewId' = Settle(preview)
                  /\ logs' = logs \o app.log \o preview.log
                  /\ calls' = Append(calls,
                        GraphqlCall(preview.val, BuildQuery(dictionaryPath, language)))
                  /\ UNCHANGED items
             [] entry = "fetchDictionaryItems" /\ ~Proceeds(preview) ->
                  /\ pc' = "done"
                  /\ previewId' = Settle(preview)
                  /\ logs' = logs \o app.log \o preview.log \o ended.log
                  /\ items' = Settle(ended)
                  /\ UNCHANGED calls
        /\ UNCHANGED <<entry, client, dictionaryPath, language, gqlOutcome>>
        /\ UNCHANGED hookVars

ContextResolves ==
    /\ pc = "awaitContext"
    /\ \E r \in ContextResponses : ContextSettles(Fulfilled(r))
ContextRejects ==
    /\ pc = "awaitContext"
    /\ \E e \in Reasons : ContextSettles(Rejected(e))

\* the xmc.preview.graphql call settles: fetchDictionaryItems runs to its return
GraphqlSettles(settled) ==
    LET ended == FetchCatch(FetchUnpack(Awaited(settled), dictionaryPath))
    IN  /\ pc = "awaitGraphql"
        /\ gqlOutcome' = settled
        /\ items' = Settle(ended)
        /\ logs' = logs \o ended.log
        /\ pc' = "done"
        /\ UNCHANGED <<entry, client, dictionaryPath, language, calls,
                       ctxOutcome, appContext, previewId>>
        /\ UNCHANGED hookVars

GraphqlResolves ==
    /\ pc = "awaitGraphql"
    /\ \E r \in GraphqlResponses : GraphqlSettles(Fulfilled(r))
GraphqlRejects ==
    /\ pc = "awaitGraphql"
    /\ \E e \in Reasons : GraphqlSettles(Rejected(e))

-----------------------------------------------------------------------------
(* useUser *)

Hooks == {1, 2}
Clients == {"none", "sdk"}

UserX == Obj(<< <<"name", Str(<<"X">>)>> >>)
UserY == Obj(<< <<"name", Str(<<"Y">>)>> >>)
\* what client.query("host.user") resolves to
UserResponses ==
    {Obj(<< <<"data", UserX>> >>), Obj(<< <<"data", UserY>> >>), Obj(<<>>), Undefined}
UserReasons == {Err(<<"b", "o", "o", "m">>)}

\* a component before it mounts
Unmounted ==
    [mounted |-> FALSE, client |-> "none", isInitialized |-> FALSE,
     user |-> Undefined, isLoading |-> TRUE]

InitHook ==
    /\ hooks = [i \in Hooks |-> Unmounted]
    /\ queries = <<>>

\* the guard of fetchUserData, negated
Ready(h) == h.client # "none" /\ h.isInitialized

EffectStateSkipClears(h) == [h EXCEPT !.isLoading = Ready(h)]

\* fetchUserData up to its await: the state of the hook
EffectState(h) == IF ~Ready(h) THEN h ELSE [h EXCEPT !.isLoading = TRUE]

EffectQueriesDeduplicated(i, h, qs) ==
    IF ~Ready(h) \/ \E n \in DOMAIN qs : qs[n].outcome.state = "pending"
    THEN qs
    ELSE Append(qs, [hook |-> i, outcome |-> Pending])

\* fetchUserData up to its await: the queries issued
EffectQueries(i, h, qs) ==
    IF ~Ready(h) THEN qs ELSE Append(qs, [hook |-> i, outcome |-> Pending])

SettledStateNoFinally(h, settled) ==
    IF settled.ok /\ ~IsNullish(settled.val)
    THEN [h EXCEPT !.user = Get(settled.val, "data"), !.isLoading = FALSE]
    ELSE h

\* fetchUserData from its await on: destructuring, setUser, catch, finally
SettledState(h, settled) ==
    IF settled.ok /\ ~IsNullish(settled.val)
    THEN [h EXCEPT !.user = Get(settled.val, "data"), !.isLoading = FALSE]
    ELSE [h EXCEPT !.isLoading = FALSE]

\* useState initial values, first render, and the effect after it
Mount ==
    \E i \in Hooks, c \in Clients, init \in BOOLEAN :
        LET h == [Unmounted EXCEPT !.mounted = TRUE, !.client = c,
                                   !.isInitialized = init]
        IN  /\ ~hooks[i].mounted
            /\ Ready(h) => Len(queries) < MaxQueries
            /\ hooks' = [hooks EXCEPT ![i] = EffectState(h)]
            /\ queries' = EffectQueries(i, h, queries)
            /\ UNCHANGED fetchVars

\* useMarketplaceClient returns another client or isInitialized: the component
\* renders again and the effect, whose dependencies changed, runs again
DepsChange ==
    \E i \in Hooks, c \in Clients, init \in BOOLEAN :
        LET h == [hooks[i] EXCEPT !.client = c, !.isInitialized = init]
        IN  /\ hooks[i].mounted
            /\ <<c, init>> # <<hooks[i].client, hooks[i].isInitialized>>
            /\ Ready(h) => Len(queries) < MaxQueries
            /\ hooks' = [hooks EXCEPT ![i] = EffectState(h)]
            /\ queries' = EffectQueries(i, h, queries)
            /\ UNCHANGED fetchVars

\* a host.user query settles
QuerySettles(n, settled) ==
    /\ n \in DOMAIN queries
    /\ queries[n].outcome = Pending
    /\ queries' = [queries EXCEPT ![n].outcome = settled]
    /\ hooks' = [hooks EXCEPT ![queries[n].hook] = SettledState(@, Awaited(settled))]
    /\ UNCHANGED fetchVars

QueryResolves ==
    \E n \in 1..MaxQueries, r \in UserResponses : QuerySettles(n, Fulfilled(r))
QueryRejects ==
    \E n \in 1..MaxQueries, e \in UserReasons : QuerySettles(n, Rejected(e))

-----------------------------------------------------------------------------
(* Specifications *)

Init == InitFetch /\ InitHook

NextFetch ==
    \/ CallGetApplicationContext
    \/ CallGetPreviewContextId
    \/ CallFetchDictionaryItems
    \/ ContextResolves
    \/ ContextRejects
    \/ GraphqlResolves
    \/ GraphqlRejects

NextHook ==
    \/ Mount
    \/ DepsChange
    \/ QueryResolves
    \/ QueryRejects

SpecFetch == Init /\ [][NextFetch]_vars
SpecHook == Init /\ [][NextHook]_vars

-----------------------------------------------------------------------------
(* Properties of the dictionary fetcher and the context resolver *)

\* the entries of a well-formed results sequence, with the item each yields
\* (kept FALSE: the entry is dropped)
EntryTable ==
    {[entry |-> Entry(Field(Str(<<"a">>)), Field(Str(<<"H", "i">>))),
      kept |-> TRUE, key |-> Str(<<"a">>), phrase |-> Str(<<"H", "i">>)],
     [entry |-> Entry(Field(Str(<<"b">>)), Field(Str(<<>>))),
      kept |-> FALSE, key |-> Str(<<"b">>), phrase |-> Str(<<>>)],
     [entry |-> Entry(Field(Str(<<"c">>)), Field(Str(<<" ", "\n">>))),
      kept |-> FALSE, key |-> Str(<<"c">>), phrase |-> Str(<<" ", "\n">>)],
     [entry |-> Obj(<< <<"phraseField", Field(Str(<<" ", "x", " ">>))>> >>),
      kept |-> TRUE, key |-> Str(<<>>), phrase |-> Str(<<" ", "x", " ">>)],
     [entry |-> Entry(Field(Str(<<"d">>)), Null),
      kept |-> FALSE, key |-> Str(<<"d">>), phrase |-> Str(<<>>)]}
WellFormedEntries == {row.entry : row \in EntryTable}
WellFormedResults == SeqsUpTo(WellFormedEntries, MaxResults)
RowOf(e) == CHOOSE row \in EntryTable : row.entry = e
IsKept(e) == RowOf(e).kept
ExpectedItems(e) ==
    LET kept == SelectSeq(e, IsKept)
    IN  [n \in 1..Len(kept) |->
            [key |-> RowOf(kept[n]).key, phrase |-> RowOf(kept[n]).phrase]]
\* the well-formed responses, and the items expected of each
WellFormedResponses == {Nest(Arr(e)) : e \in WellFormedResults}
ExpectedOfResponse ==
    [r \in WellFormedResponses |->
        ExpectedItems(CHOOSE e \in WellFormedResults : Nest(Arr(e)) = r)]

\* the application.context responses whose resources[0].context.preview is a
\* string, with that string
PreviewTable ==
    {<<Obj(<< <<"data", Context(Arr(<<Resource(Str(<<>>))>>))>> >>), Str(<<>>)>>,
     <<Obj(<< <<"data", Context(Arr(<<Resource(Id1)>>))>> >>), Id1>>,
     <<Obj(<< <<"data", Context(Arr(<<Resource(Id2), Resource(Id1)>>))>> >>), Id2>>}
ExpectedPreview ==
    IF ctxOutcome.state = "fulfilled"
       /\ \E row \in PreviewTable : row[1] = ctxOutcome.value
    THEN (CHOOSE row \in PreviewTable : row[1] = ctxOutcome.value)[2]
    ELSE Null
\* the payloads getApplicationContext hands on as they are
ExpectedPayload ==
    IF ctxOutcome.state = "fulfilled"
       /\ \E d \in ContextPayloads \ {Undefined, Null} :
             ctxOutcome.value = Obj(<< <<"data", d>> >>)
    THEN CHOOSE d \in ContextPayloads : ctxOutcome.value = Obj(<< <<"data", d>> >>)
    ELSE Null

\* ^/sitecore/[\w\s\-/]+$ and ^[a-z]{2}(-[a-z]{2,3})?$ (case-insensitive), as
\* sets of strings
SafePathChars ==
    Lower \cup Upper \cup Digits \cup {"_", " ", "\t", "\n", "\r", "\f", "-", "/"}
MatchesPathPattern(path) ==
    \E n \in 1..Len(path) :
        /\ Len(path) = Len(Root) + n
        /\ SubSeq(path, 1, Len(Root)) = Root
        /\ \A k \in 1..n : path[Len(Root) + k] \in SafePathChars
MatchesLanguagePattern(lang) ==
    \E region \in {0, 2, 3} :
        /\ Len(lang) = 2 + (IF region = 0 THEN 0 ELSE region + 1)
        /\ \A k \in {1, 2} : lang[k] \in Lower \cup Upper
        /\ region > 0 => lang[3] = "-"
        /\ \A k \in 1..region : lang[3 + k] \in Lower \cup Upper

Malformed ==
    /\ gqlOutcome.state = "fulfilled"
    /\ gqlOutcome.value \notin WellFormedResponses

C3_ItemsOfResults ==
    (/\ entry = "fetchDictionaryItems"
     /\ pc = "done"
     /\ gqlOutcome.state = "fulfilled"
     /\ gqlOutcome.value \in WellFormedResponses) =>
        items = Fulfilled(ExpectedOfResponse[gqlOutcome.value])

\* a whitespace-only phrase was dropped and an entry without key kept
C3_Witness ==
    /\ entry = "fetchDictionaryItems"
    /\ pc = "done"
    /\ gqlOutcome = Fulfilled(Nest(Arr(
           <<Entry(Field(Str(<<"c">>)), Field(Str(<<" ", "\n">>))),
             Obj(<< <<"phraseField", Field(Str(<<" ", "x", " ">>))>> >>)>>)))
    /\ items = Fulfilled(<<[key |-> Str(<<>>), phrase |-> Str(<<" ", "x", " ">>)]>>)

C6_CallOrder ==
    entry = "fetchDictionaryItems" =>
        /\ Len(calls) <= 2
        /\ \A n \in DOMAIN calls :
              calls[n].name = "application.context" <=> n = 1
        /\ Len(calls) = 2 =>
              /\ calls[2].method = "mutate"
              /\ calls[2].name = "xmc.preview.graphql"
              /\ ctxOutcome.state = "fulfilled"
              /\ calls[2].sitecoreContextId = ExpectedPreview
              /\ ExpectedPreview \in {Id1, Id2}
        /\ (pc = "done" /\ ctxOutcome # Pending /\ ExpectedPreview \notin {Id1, Id2}) =>
              /\ Len(calls) = 1
              /\ items = Fulfilled(<<>>)

\* the GraphQL call rejected and nothing was issued after it
C6_Witness ==
    /\ entry = "fetchDictionaryItems"
    /\ pc = "done"
    /\ gqlOutcome.state = "rejected"
    /\ Len(calls) = 2
    /\ calls[2].sitecoreContextId = Id2

-----------------------------------------------------------------------------
(* Properties of useUser *)

QueriesOf(i) == {n \in DOMAIN queries : queries[n].hook = i}

\* the host.user responses of the shape {data: d}, with d
UserTable ==
    {<<Obj(<< <<"data", UserX>> >>), UserX>>, <<Obj(<< <<"data", UserY>> >>), UserY>>}

\* user and isLoading of a hook whose only query has this outcome
ExpectedOfOwn(outcome) ==
    IF outcome = Pending THEN [user |-> Undefined, isLoading |-> TRUE]
    ELSE IF outcome.state = "fulfilled" /\ \E row \in UserTable : row[1] = outcome.value
    THEN [user |-> (CHOOSE row \in UserTable : row[1] = outcome.value)[2],
          isLoading |-> FALSE]
    ELSE [user |-> Undefined, isLoading |-> FALSE]

\* the effect of hook i ran in this step: it mounted, or its dependencies changed
EffectRan(i) ==
    /\ hooks'[i].mounted
    /\ \/ ~hooks[i].mounted
       \/ <<hooks'[i].client, hooks'[i].isInitialized>>
            # <<hooks[i].client, hooks[i].isInitialized>>
HasClient(h) == h.client = "sdk" /\ h.isInitialized = TRUE

\* C4: once the single host.user query of a hook has settled, isLoading is
\* false, user is d if the query resolved to {data: d} and undefined if it
\* rejected.
C4_EndsSettled ==
    \A i \in Hooks : \A n \in QueriesOf(i) :
        (Cardinality(QueriesOf(i)) = 1 /\ queries[n].outcome # Pending) =>
            /\ hooks[i].isLoading = FALSE
            /\ \A row \in UserTable :
                  queries[n].outcome = Fulfilled(row[1]) => hooks[i].user = row[2]
            /\ queries[n].outcome.state = "rejected" => hooks[i].user = Undefined

\* the only query of hook 1 rejected
C4_Witness ==
    /\ QueriesOf(1) = {1}
    /\ queries[1].outcome.state = "rejected"
    /\ hooks[1].isLoading = FALSE
    /\ hooks[1].user = Undefined

\* C7: an effect run without a client, or with one that is not initialized,
\* issues no query and leaves user and isLoading as they were; a mounted hook
\* that never issued a query is loading with no user.
C7_SkipPath ==
    /\ [](\A i \in Hooks :
            (hooks[i].mounted /\ QueriesOf(i) = {}) =>
                hooks[i].isLoading = TRUE /\ hooks[i].user = Undefined)
    /\ [][\A i \in Hooks :
            (EffectRan(i) /\ ~HasClient(hooks'[i])) =>
                /\ queries' = queries
                /\ hooks'[i].user = hooks[i].user
                /\ hooks'[i].isLoading = hooks[i].isLoading]_vars

\* hook 1 got a client that is not initialized, after hook 2 finished loading
C7_Witness ==
    /\ hooks[1].mounted
    /\ hooks[1].client = "sdk"
    /\ ~hooks[1].isInitialized
    /\ QueriesOf(1) = {}
    /\ hooks[1].isLoading
    /\ hooks[2].isLoading = FALSE

\* C8: every effect run with an initialized client issues a query of its own,
\* and when each of the two hooks has issued one query, user and isLoading of
\* each follow from the outcome of its own query alone.
C8_Independent ==
    /\ [](\A i \in Hooks :
            (\A j \in Hooks : Cardinality(QueriesOf(j)) = 1) =>
                \A n \in QueriesOf(i) :
                    /\ hooks[i].user = ExpectedOfOwn(queries[n].outcome).user
                    /\ hooks[i].isLoading = ExpectedOfOwn(queries[n].outcome).isLoading)
    /\ [][\A i \in Hooks :
            (EffectRan(i) /\ HasClient(hooks'[i])) =>
                queries' = Append(queries, [hook |-> i, outcome |-> Pending])]_vars

\* the query issued second settled first, and each hook shows its own outcome
C8_Witness ==
    /\ QueriesOf(1) = {1}
    /\ QueriesOf(2) = {2}
    /\ queries[1].outcome = Pending
    /\ queries[2].outcome = Fulfilled(Obj(<< <<"data", UserY>> >>))
    /\ hooks[1].isLoading = TRUE
    /\ hooks[2].user = UserY

\* C9: while a host.user query of a hook has not settled, the hook is loading.
C9_LoadingTracksInFlight ==
    \A n \in DOMAIN queries :
        queries[n].outcome = Pending => hooks[queries[n].hook].isLoading = TRUE

\* C10: when every query of a hook that issued several has settled, user is
\* the data of the query issued last.
C10_NoStaleOverwrite ==
    \A i \in Hooks :
        (/\ Cardinality(QueriesOf(i)) >= 2
         /\ \A n \in QueriesOf(i) : queries[n].outcome # Pending) =>
            LET last == CHOOSE n \in QueriesOf(i) : \A m \in QueriesOf(i) : m <= n
            IN  \A row \in UserTable :
                    queries[last].outcome = Fulfilled(row[1]) => hooks[i].user = row[2]

=============================================================================
